---- MODULE Spec2Model ----
(***************************************************************************)
(* Model of the manage-library service: the Book, Members and Transactions *)
(* tables and the repository operations over them.                         *)
(*                                                                         *)
(* Time is counted in units of half a day (DayLen units make one day), so  *)
(* that a same-day return, a return one whole day later and a return       *)
(* before the issue date are all representable.  All datetimes are         *)
(* timezone-aware instants.  The member repository is modelled by the     *)
(* bodies of its methods, as they run once the class is defined.           *)
(***************************************************************************)
EXTENDS Integers, FiniteSets, Sequences, TLC

\* ---------------------------------------------------------------- bounds
MaxTx == 1        \* transactions ever created (ids 1..MaxTx)
MaxBooks == 2     \* books ever created in the catalogue specification
MaxOps == 2       \* transaction requests served in one behaviour
MaxMembers == 2   \* members ever created in the member specification
MaxImport == 2    \* the largest number of books an import is asked for

\* ------------------------------------------------------ program constants
DayLen == 2               \* time units per day (granularity of timedelta.days)
rent_fee_per_day == 10

\* ------------------------------------------------------------ value sets
NoDate == -1              \* SQL NULL / Python None in a datetime column
Unset == -2               \* field not supplied in a patch payload
Times == 0..2             \* the clock: a day, in halves
IssueDates == {0, 2}      \* supplied issue dates: a day apart
ReturnDates == {0, 1, 2, 4}   \* supplied return dates: up to two days
Fees == {0, 5}            \* late_fee values a caller supplies
Isbns == {"x", "y"}
Stocks == {0, 5}          \* stock values: the column default, the import default
Names == {"ann", "bob"}
Emails == {"a@x", "b@x"}
TransactionStatus == {"issued", "returned"}

TxIds == 1..MaxTx
BookRefs == {1, 2}        \* uuids a request may carry as a book id
MemberRefs == {1, 2}      \* uuids a request may carry as a member id
Workers == {1, 2}         \* requests that may be in flight at the same time

VARIABLES
    books,          \* table book: id -> [isbn, stock]
    members,        \* table members: id -> [name, email]
    transactions,   \* table transactions: id -> row
    nextBook, nextMember, nextTx,   \* uuid4 never repeats: next fresh id
    now,            \* the clock
    last,           \* the last request: operation, target and outcome
    served,         \* number of transaction requests served so far
    inflight        \* worker -> the request it is in the middle of

vars == <<books, members, transactions, nextBook, nextMember, nextTx, now, last,
          served, inflight>>

\* ------------------------------------------------------------- requests

\* TransactionCreate (= TransactionBase): book_id, member_id, status and
\* issue_date are required; return_date defaults to None, late_fee to 0.
TransactionCreate ==
    [book_id : BookRefs, member_id : MemberRefs, status : TransactionStatus,
     issue_date : IssueDates, return_date : ReturnDates \cup {NoDate}, late_fee : Fees]

\* create requests as the API describes them: references only, the rest
\* at its defaults
RouteRequests ==
    {r \in TransactionCreate :
        r.status = "issued" /\ r.return_date = NoDate /\ r.late_fee = 0}

\* TransactionPatch: every field optional (Unset = not in the payload).
TransactionPatch ==
    [book_id : BookRefs \cup {Unset}, member_id : MemberRefs \cup {Unset},
     status : TransactionStatus \cup {"unset"},
     issue_date : IssueDates \cup {Unset}, return_date : ReturnDates \cup {Unset},
     late_fee : Fees \cup {Unset}]

\* the fields a payload supplies (the keys of model_dump(exclude_unset=True))
Supplied(patch) ==
    {f \in {"book_id", "member_id", "issue_date", "return_date", "late_fee"} :
        patch[f] # Unset} \cup (IF patch.status # "unset" THEN {"status"} ELSE {})

\* the payloads requests carry: at most two fields supplied
PatchPayloads == {p \in TransactionPatch : Cardinality(Supplied(p)) <= 2}

EmptyPatch ==
    [book_id |-> Unset, member_id |-> Unset, status |-> "unset",
     issue_date |-> Unset, return_date |-> Unset, late_fee |-> Unset]

\* ------------------------------------------------------- pure functions

\* a timedelta.days that rounds toward zero
days_truncating(delta) ==
    IF delta >= 0 THEN delta \div DayLen ELSE -((-delta) \div DayLen)

\* timedelta.days of (return_date - issue_date): floor to whole days.
days(delta) == delta \div DayLen

\* TransactionRepository._return_book
_return_book(transaction, return_date) ==
    days(return_date - transaction.issue_date) * rent_fee_per_day

\* TransactionRepository._extract_changes: model_dump(exclude_unset=True);
\* the dict of changes is the payload with its Unset fields missing.
_extract_changes(transaction_patch) == transaction_patch

\* the condition of the rent fee calculation in patch_transaction
FeeTriggered(patch) ==
    patch.status = "returned" \/ patch.return_date # Unset

\* a patch that computes the fee from the clock but forgets the return date
PatchChanges_fee_only(db_transaction, patch, clock) ==
    LET changes == _extract_changes(patch)
        return_date == IF patch.return_date # Unset THEN patch.return_date ELSE clock
    IN  IF FeeTriggered(patch)
        THEN [changes EXCEPT !.late_fee = _return_book(db_transaction, return_date)]
        ELSE changes

\* a patch that lets the caller's late_fee win over the computed fee
PatchChanges_caller_fee(db_transaction, patch, clock) ==
    LET changes == _extract_changes(patch)
        return_date == IF patch.return_date # Unset THEN patch.return_date ELSE clock
    IN  IF FeeTriggered(patch)
        THEN [changes EXCEPT !.return_date = return_date,
                             !.late_fee = IF patch.late_fee # Unset THEN patch.late_fee
                                          ELSE _return_book(db_transaction, return_date)]
        ELSE changes

\* a patch that leaves the return of a transaction already returned alone
PatchChanges_return_once(db_transaction, patch, clock) ==
    LET changes == _extract_changes(patch)
        return_date == IF patch.return_date # Unset THEN patch.return_date ELSE clock
    IN  IF FeeTriggered(patch) /\ db_transaction.status # "returned"
        THEN [changes EXCEPT !.return_date = return_date,
                             !.late_fee = _return_book(db_transaction, return_date)]
        ELSE changes

\* a patch that computes the fee from the issue_date it is about to write
PatchChanges_new_issue_date(db_transaction, patch, clock) ==
    LET changes == _extract_changes(patch)
        return_date == IF patch.return_date # Unset THEN patch.return_date ELSE clock
        issued == IF patch.issue_date # Unset THEN [issue_date |-> patch.issue_date]
                  ELSE db_transaction
    IN  IF FeeTriggered(patch)
        THEN [changes EXCEPT !.return_date = return_date,
                             !.late_fee = _return_book(issued, return_date)]
        ELSE changes

\* the dict of changes patch_transaction hands to UPDATE ... SET
PatchChanges(db_transaction, patch, clock) ==
    LET changes == _extract_changes(patch)
        return_date == IF patch.return_date # Unset THEN patch.return_date ELSE clock
    IN  IF FeeTriggered(patch)
        THEN [changes EXCEPT !.return_date = return_date,
                             !.late_fee = _return_book(db_transaction, return_date)]
        ELSE changes

\* an update that replaces the row (a field not supplied loses its value)
ApplyChanges_replace(row, changes) ==
    [book_id     |-> IF changes.book_id = Unset THEN row.book_id ELSE changes.book_id,
     member_id   |-> IF changes.member_id = Unset THEN row.member_id ELSE changes.member_id,
     status      |-> IF changes.status = "unset" THEN row.status ELSE changes.status,
     issue_date  |-> IF changes.issue_date = Unset THEN row.issue_date ELSE changes.issue_date,
     return_date |-> IF changes.return_date = Unset THEN NoDate ELSE changes.return_date,
     late_fee    |-> IF changes.late_fee = Unset THEN 0 ELSE changes.late_fee]

\* UPDATE transactions SET <changes> WHERE id = ...: one row, one statement
ApplyChanges(row, changes) ==
    [book_id     |-> IF changes.book_id = Unset THEN row.book_id ELSE changes.book_id,
     member_id   |-> IF changes.member_id = Unset THEN row.member_id ELSE changes.member_id,
     status      |-> IF changes.status = "unset" THEN row.status ELSE changes.status,
     issue_date  |-> IF changes.issue_date = Unset THEN row.issue_date ELSE changes.issue_date,
     return_date |-> IF changes.return_date = Unset THEN row.return_date ELSE changes.return_date,
     late_fee    |-> IF changes.late_fee = Unset THEN row.late_fee ELSE changes.late_fee]

\* the foreign keys of table transactions
ForeignKeysHold(row) ==
    /\ row.book_id \in DOMAIN books
    /\ row.member_id \in DOMAIN members

\* What the last request was and how it ended.  outcome is "ok", "none"
\* (add_book returned None), or the HTTP status of the failure ("500" is
\* an exception no handler maps).  isbn is the ISBN of a book request,
\* patch the payload of a transaction patch, arg the payload or the
\* result of any other request.
Outcome(op, id, outcome) ==
    [op |-> op, id |-> id, outcome |-> outcome, isbn |-> "unset", patch |-> EmptyPatch,
     arg |-> <<>>]

ArgOutcome(op, id, arg, outcome) ==
    [Outcome(op, id, outcome) EXCEPT !.arg = arg]

BookOutcome(op, id, isbn, outcome) ==
    [Outcome(op, id, outcome) EXCEPT !.isbn = isbn]

PatchOutcome(id, patch, outcome) ==
    [Outcome("patch_transaction", id, outcome) EXCEPT !.patch = patch]

Remove(table, id) == [i \in DOMAIN table \ {id} |-> table[i]]

\* a book payload that supplies nothing
NoBook == [isbn |-> "unset", stock |-> Unset]

\* the locals of import_books while no import is in flight
NoRun ==
    [pages |-> 0, feed |-> [pages |-> <<>>, endless |-> FALSE], page |-> 0,
     books_imported |-> <<>>]

\* a worker with no request in flight; otherwise pc names the step the
\* request resumes at, and the other fields are its locals
Idle ==
    [pc |-> "idle", book |-> NoBook, id |-> 0,
     patch |-> EmptyPatch, issue_date |-> NoDate, run |-> NoRun]

\* ----------------------------------------------------------------- Init
Init ==
    /\ books = <<>>
    /\ members = <<>>
    /\ transactions = <<>>
    /\ nextBook = 1
    /\ nextMember = 1
    /\ nextTx = 1
    /\ now = 0
    /\ last = Outcome("none", 0, "none")
    /\ served = 0
    /\ inflight = [w \in Workers |-> Idle]

\* ------------------------------------------------------ book repository

\* an ISBN lookup that never matches
_get_book_bi_isbn_no_match(isbn) == {b \in DOMAIN books : FALSE}

\* an ISBN lookup that takes the first match (first() for scalar_one_or_none())
_get_book_bi_isbn_first(isbn) ==
    LET matches == {b \in DOMAIN books : books[b].isbn = isbn}
    IN  IF matches = {} THEN {} ELSE {CHOOSE b \in matches : TRUE}

\* BookRepository._get_book_bi_isbn: the rows scalar_one_or_none() sees
_get_book_bi_isbn(isbn) == {b \in DOMAIN books : books[b].isbn = isbn}

\* BookCreate (= BookBase): isbn required, stock defaults to 0
BookCreate == [isbn : Isbns, stock : Stocks]

\* BookPatch: every field optional
BookPatch == [isbn : Isbns \cup {"unset"}, stock : Stocks \cup {Unset}]

\* BookRepository.add_book
add_book(book) ==
    LET existing_book == _get_book_bi_isbn(book.isbn) IN
    /\ IF Cardinality(existing_book) > 1
       THEN \* MultipleResultsFound -> http_400
            /\ last' = BookOutcome("add_book", 0, book.isbn, "400")
            /\ UNCHANGED <<books, nextBook>>
       ELSE IF existing_book # {}
       THEN \* return None
            /\ last' = BookOutcome("add_book", 0, book.isbn, "none")
            /\ UNCHANGED <<books, nextBook>>
       ELSE /\ books' = books @@ (nextBook :> book)
            /\ nextBook' = nextBook + 1
            /\ last' = BookOutcome("add_book", nextBook, book.isbn, "ok")
    /\ UNCHANGED <<members, transactions, nextMember, nextTx, now, served, inflight>>

\* UPDATE book SET <changes> WHERE id = ...
ApplyBookChanges(row, changes) ==
    [isbn  |-> IF changes.isbn = "unset" THEN row.isbn ELSE changes.isbn,
     stock |-> IF changes.stock = Unset THEN row.stock ELSE changes.stock]

\* what a patch answers: its payload and the record it returns
Patched(changes, returned) == [changes |-> changes, returned |-> returned]

\* BookRepository.patch_book: the record returned is the row read again
\* after the UPDATE
patch_book(book_id, book) ==
    /\ IF book_id \notin DOMAIN books
       THEN \* _get_instance returned None: None.__dict__ raises
            /\ last' = [BookOutcome("patch_book", book_id, book.isbn, "500")
                           EXCEPT !.arg = Patched(book, NoBook)]
            /\ UNCHANGED books
       ELSE IF book = NoBook
       THEN \* UPDATE with nothing to set: no row changes, whether or not
            \* the statement is rejected
            /\ \/ last' = [BookOutcome("patch_book", book_id, book.isbn, "ok")
                              EXCEPT !.arg = Patched(book, books[book_id])]
               \/ last' = [BookOutcome("patch_book", book_id, book.isbn, "409")
                              EXCEPT !.arg = Patched(book, NoBook)]
            /\ UNCHANGED books
       ELSE /\ books' = [books EXCEPT ![book_id] = ApplyBookChanges(books[book_id], book)]
            /\ last' = [BookOutcome("patch_book", book_id, book.isbn, "ok")
                           EXCEPT !.arg = Patched(book, books'[book_id])]
    /\ UNCHANGED <<members, transactions, nextBook, nextMember, nextTx, now, served, inflight>>

\* the catalogue feed as an import sees it: the pages it answers with,
\* in order; a page is a failed fetch (transport or parsing error) or the
\* list of its records' ISBNs (one record, two records, the same record
\* twice); past the last page the feed answers with an empty page
FeedPages ==
    {[fails |-> TRUE, message |-> <<>>]}
        \cup {[fails |-> FALSE, message |-> m] :
                 m \in {<<i>> : i \in Isbns} \cup {<<"x", "y">>, <<"x", "x">>}}

Feeds == {<<>>} \cup {<<p>> : p \in FeedPages} \cup {<<p, q>> : p, q \in FeedPages}

\* the loop "for book_data in data['message']" of import_books on one
\* page: add_book for each record until the target is reached; run is
\* the import so far (catalogue, next id, books_imported, page, outcome)
RECURSIVE import_page(_, _, _)
import_page(run, pages, message) ==
    IF message = <<>> \/ Len(run.books_imported) >= pages
    THEN run
    ELSE LET book == [isbn |-> Head(message), stock |-> 5]
             existing_book == {b \in DOMAIN run.books : run.books[b].isbn = book.isbn}
         IN  IF Cardinality(existing_book) > 1
             THEN \* add_book raises http_400, the loop's except re-raises http_400
                  [run EXCEPT !.outcome = "400"]
             ELSE IF existing_book # {}
             THEN \* add_book returned None: not counted
                  import_page(run, pages, Tail(message))
             ELSE import_page([run EXCEPT !.books = run.books @@ (run.nextBook :> book),
                                          !.nextBook = run.nextBook + 1,
                                          !.books_imported = Append(run.books_imported, book.isbn)],
                              pages, Tail(message))

\* the loop "while len(books_imported) < pages" of import_books
RECURSIVE import_loop(_, _, _)
import_loop(run, pages, feed) ==
    IF Len(run.books_imported) >= pages
    THEN [run EXCEPT !.outcome = "ok"]
    ELSE IF run.page <= Len(feed) /\ feed[run.page].fails
    THEN \* the fetch or response.json() raised: http_400
         [run EXCEPT !.outcome = "400"]
    ELSE IF run.page > Len(feed) \/ feed[run.page].message = <<>>
    THEN \* raise http_404 inside the try: caught by "except Exception"
         \* and re-raised as http_400
         [run EXCEPT !.outcome = "400"]
    ELSE LET after == import_page(run, pages, feed[run.page].message)
         IN  IF after.outcome = "400"
             THEN after
             ELSE import_loop([after EXCEPT !.page = after.page + 1], pages, feed)

\* the state of an import before its first page
ImportStart ==
    [books |-> books, nextBook |-> nextBook, books_imported |-> <<>>, page |-> 1,
     outcome |-> "running"]

\* an import that undoes its adds when it fails
import_books_atomic(pages, feed) ==
    LET run == import_loop(ImportStart, pages, feed) IN
    /\ books' = IF run.outcome = "ok" THEN run.books ELSE books
    /\ nextBook' = run.nextBook
    /\ last' = ArgOutcome("import_books", 0,
                          [pages |-> pages, feed |-> feed, page |-> run.page,
                           books_imported |-> run.books_imported], run.outcome)
    /\ UNCHANGED <<members, transactions, nextMember, nextTx, now, served, inflight>>

\* BookRepository.import_books: every add_book commits on its own
import_books(pages, feed) ==
    LET run == import_loop(ImportStart, pages, feed) IN
    /\ books' = run.books
    /\ nextBook' = run.nextBook
    /\ last' = ArgOutcome("import_books", 0,
                          [pages |-> pages, feed |-> feed, page |-> run.page,
                           books_imported |-> run.books_imported], run.outcome)
    /\ UNCHANGED <<members, transactions, nextMember, nextTx, now, served, inflight>>

\* the feed as a service of its own: the pages it holds, and whether it
\* ever runs out. A feed that runs out answers with an empty page past
\* its last one; an endless feed answers page p with its page
\* ((p - 1) mod Len) + 1, as a service does that wraps around or ignores
\* the page parameter
EndlessFeeds ==
    {[pages |-> f, endless |-> e] : f \in Feeds, e \in BOOLEAN} \
        {[pages |-> <<>>, endless |-> TRUE]}

\* the response to client.get(..., params={"page": page, ...})
FeedAnswer(feed, page) ==
    IF feed.endless
    THEN feed.pages[((page - 1) % Len(feed.pages)) + 1]
    ELSE IF page <= Len(feed.pages)
    THEN feed.pages[page]
    ELSE [fails |-> FALSE, message |-> <<>>]

\* "page += 1"; the page number sent to an endless feed is kept modulo
\* twice the feed's period, which no answer of the feed can tell from the
\* number itself
NextPage(feed, page) ==
    IF feed.endless THEN (page % (2 * Len(feed.pages))) + 1 ELSE page + 1

\* the call of import_books: books_imported = [], page = 1
import_books_call(w, pages, feed) ==
    /\ inflight[w].pc = "idle"
    /\ inflight' = [inflight EXCEPT ![w] =
                        [Idle EXCEPT !.pc = "import_books",
                                     !.run = [pages |-> pages, feed |-> feed, page |-> 1,
                                              books_imported |-> <<>>]]]
    /\ last' = ArgOutcome("import_books", 0,
                          [pages |-> pages, feed |-> feed, page |-> 1,
                           books_imported |-> <<>>, request |-> FALSE], "running")
    /\ UNCHANGED <<books, members, transactions, nextBook, nextMember, nextTx, now, served>>

\* one pass of "while len(books_imported) < pages" in import_books: the
\* test, and when it holds the fetch of the page, the adds of its records
\* and "page += 1"; when it fails the return
import_books_while(w) ==
    LET run == inflight[w].run
        answer == FeedAnswer(run.feed, run.page)
        after == import_page([books |-> books, nextBook |-> nextBook,
                              books_imported |-> run.books_imported,
                              page |-> run.page, outcome |-> "running"],
                             run.pages, answer.message)
        outcome == IF Len(run.books_imported) >= run.pages THEN "ok"
                   ELSE IF answer.fails \/ answer.message = <<>> THEN "400"
                   ELSE after.outcome
    IN  /\ inflight[w].pc = "import_books"
        /\ books' = IF outcome = "ok" THEN books ELSE after.books
        /\ nextBook' = IF outcome = "ok" THEN nextBook ELSE after.nextBook
        /\ inflight' = [inflight EXCEPT ![w] =
                 IF outcome = "running"
                 THEN [@ EXCEPT !.run.page = NextPage(run.feed, run.page),
                                !.run.books_imported = after.books_imported]
                 ELSE Idle]
        /\ last' = ArgOutcome("import_books", 0,
                      [pages |-> run.pages, feed |-> run.feed, page |-> run.page,
                       books_imported |-> IF outcome = "ok" THEN run.books_imported
                                          ELSE after.books_imported,
                       request |-> outcome # "ok"], outcome)
        /\ UNCHANGED <<members, transactions, nextMember, nextTx, now, served>>

\* add_book up to its first suspension: the ISBN lookup has answered
add_book_lookup(w, book) ==
    LET existing_book == _get_book_bi_isbn(book.isbn) IN
    /\ inflight[w].pc = "idle"
    /\ IF Cardinality(existing_book) > 1
       THEN /\ last' = BookOutcome("add_book", 0, book.isbn, "400")
            /\ UNCHANGED inflight
       ELSE IF existing_book # {}
       THEN /\ last' = BookOutcome("add_book", 0, book.isbn, "none")
            /\ UNCHANGED inflight
       ELSE /\ inflight' = [inflight EXCEPT ![w] = [Idle EXCEPT !.pc = "add_book", !.book = book]]
            /\ UNCHANGED last
    /\ UNCHANGED <<books, members, transactions, nextBook, nextMember, nextTx, now, served>>

\* an insert that a unique constraint on isbn rejects
add_book_insert_unique(w) ==
    LET db_book == inflight[w].book IN
    /\ inflight[w].pc = "add_book"
    /\ IF _get_book_bi_isbn(db_book.isbn) # {}
       THEN /\ last' = BookOutcome("add_book", 0, db_book.isbn, "404")
            /\ UNCHANGED <<books, nextBook>>
       ELSE /\ books' = books @@ (nextBook :> db_book)
            /\ nextBook' = nextBook + 1
            /\ last' = BookOutcome("add_book", nextBook, db_book.isbn, "ok")
    /\ inflight' = [inflight EXCEPT ![w] = Idle]
    /\ UNCHANGED <<members, transactions, nextMember, nextTx, now, served>>

\* the rest of add_book: session.add, commit, refresh.  Column isbn has
\* no unique constraint, so the insert goes through whatever the table
\* holds by now.
add_book_insert(w) ==
    LET db_book == inflight[w].book IN
    /\ inflight[w].pc = "add_book"
    /\ books' = books @@ (nextBook :> db_book)
    /\ nextBook' = nextBook + 1
    /\ last' = BookOutcome("add_book", nextBook, db_book.isbn, "ok")
    /\ inflight' = [inflight EXCEPT ![w] = Idle]
    /\ UNCHANGED <<members, transactions, nextMember, nextTx, now, served>>

\* a delete that no foreign key stops
delete_book_unchecked(book_id) ==
    /\ IF book_id \notin DOMAIN books
       THEN /\ last' = Outcome("delete_book", book_id, "500")
            /\ UNCHANGED books
       ELSE /\ books' = Remove(books, book_id)
            /\ last' = Outcome("delete_book", book_id, "ok")
    /\ UNCHANGED <<members, transactions, nextBook, nextMember, nextTx, now, served, inflight>>

\* BookRepository.delete_book
delete_book(book_id) ==
    /\ IF book_id \notin DOMAIN books
       THEN /\ last' = Outcome("delete_book", book_id, "500")
            /\ UNCHANGED books
       ELSE IF \E t \in DOMAIN transactions : transactions[t].book_id = book_id
       THEN \* foreign key transactions.book_id -> http_409
            /\ last' = Outcome("delete_book", book_id, "409")
            /\ UNCHANGED books
       ELSE /\ books' = Remove(books, book_id)
            /\ last' = Outcome("delete_book", book_id, "ok")
    /\ UNCHANGED <<members, transactions, nextBook, nextMember, nextTx, now, served, inflight>>

\* ---------------------------------------------------- member repository

\* MemberCreate (= MemberBase): name and email required
MemberCreate == [name : Names, email : Emails]

\* MemberPatch: every field optional
MemberPatch == [name : Names \cup {"unset"}, email : Emails \cup {"unset"}]

\* MemberRepository.add_member
add_member(member) ==
    /\ IF \E m \in DOMAIN members : members[m].email = member.email
       THEN \* unique constraint on email: IntegrityError -> http_404
            /\ last' = ArgOutcome("add_member", 0, member, "404")
            /\ UNCHANGED <<members, nextMember>>
       ELSE /\ members' = members @@ (nextMember :> member)
            /\ nextMember' = nextMember + 1
            /\ last' = ArgOutcome("add_member", nextMember, member, "ok")
    /\ UNCHANGED <<books, transactions, nextBook, nextTx, now, served, inflight>>

\* MemberRepository.patch_member: update is sqlalchemy.orm.sync.update,
\* which takes five arguments, and db_member has no get(): building the
\* statement raises before the try block, for every id and payload
patch_member(member_id, member) ==
    /\ last' = ArgOutcome("patch_member", member_id,
                          Patched(member, [name |-> "unset", email |-> "unset"]), "500")
    /\ UNCHANGED <<books, members, transactions, nextBook, nextMember, nextTx, now,
                   served, inflight>>

\* MemberRepository.delete_member: db_member.get('id') raises inside the
\* try block (a Members row and None have no get()): http_409, for every id
delete_member(member_id) ==
    /\ last' = Outcome("delete_member", member_id, "409")
    /\ UNCHANGED <<books, members, transactions, nextBook, nextMember, nextTx, now,
                   served, inflight>>

\* ----------------------------------------------- transaction repository

\* TransactionRepository.add_transaction: the row is the request, dumped
Transactions(transaction) ==
    [book_id |-> transaction.book_id, member_id |-> transaction.member_id,
     status |-> transaction.status, issue_date |-> transaction.issue_date,
     return_date |-> transaction.return_date, late_fee |-> transaction.late_fee]

add_transaction(transaction) ==
    LET db_transaction == Transactions(transaction) IN
    /\ IF ForeignKeysHold(db_transaction)
       THEN /\ transactions' = transactions @@ (nextTx :> db_transaction)
            /\ nextTx' = nextTx + 1
            /\ last' = Outcome("add_transaction", nextTx, "ok")
       ELSE \* IntegrityError -> http_404
            /\ last' = Outcome("add_transaction", 0, "404")
            /\ UNCHANGED <<transactions, nextTx>>
    /\ UNCHANGED <<books, members, nextBook, nextMember, now, inflight>>

\* POST /transactions: the route passes member= and book= to
\* TransactionRepository.add_transaction, which takes neither: TypeError
route_add_transaction(transaction) ==
    /\ last' = Outcome("route_add_transaction", 0, "500")
    /\ UNCHANGED <<books, members, transactions, nextBook, nextMember, nextTx, now, inflight>>

\* TransactionRepository.patch_transaction
patch_transaction(transaction_id, transaction) ==
    /\ IF transaction_id \notin DOMAIN transactions
       THEN \* _get_instance returned None: None.__dict__ raises
            /\ last' = PatchOutcome(transaction_id, transaction, "500")
            /\ UNCHANGED transactions
       ELSE LET db_transaction == transactions[transaction_id]
                changes == PatchChanges(db_transaction, transaction, now)
                row == ApplyChanges(db_transaction, changes)
            IN  IF changes = EmptyPatch
                THEN \* UPDATE with nothing to set: no row changes, whether
                     \* or not the statement is rejected
                     /\ \E o \in {"ok", "409"} :
                            last' = PatchOutcome(transaction_id, transaction, o)
                     /\ UNCHANGED transactions
                ELSE IF ~ForeignKeysHold(row)
                THEN \* the UPDATE fails -> http_409
                     /\ last' = PatchOutcome(transaction_id, transaction, "409")
                     /\ UNCHANGED transactions
                ELSE /\ transactions' = [transactions EXCEPT ![transaction_id] = row]
                     /\ last' = PatchOutcome(transaction_id, transaction, "ok")
    /\ UNCHANGED <<books, members, nextBook, nextMember, nextTx, now, inflight>>

\* patch_transaction up to its first suspension: the row has been read
\* (of a transaction that is stored; only issue_date is used later)
patch_transaction_read(w, transaction_id, transaction) ==
    /\ inflight[w].pc = "idle"
    /\ transaction_id \in DOMAIN transactions
    /\ inflight' = [inflight EXCEPT ![w] =
          [Idle EXCEPT !.pc = "patch_transaction", !.id = transaction_id,
                       !.patch = transaction,
                       !.issue_date = transactions[transaction_id].issue_date]]
    /\ UNCHANGED <<books, members, transactions, nextBook, nextMember, nextTx, now, last>>

\* a write that computes the fee from the row as it is at the UPDATE
patch_transaction_write_fresh(w) ==
    LET transaction_id == inflight[w].id
        changes == PatchChanges(transactions[transaction_id], inflight[w].patch, now)
    IN  /\ inflight[w].pc = "patch_transaction"
        /\ transactions' = [transactions EXCEPT ![transaction_id] =
                               ApplyChanges(transactions[transaction_id], changes)]
        /\ last' = [PatchOutcome(transaction_id, inflight[w].patch, "ok")
                       EXCEPT !.arg = [issue_date |-> inflight[w].issue_date]]
        /\ inflight' = [inflight EXCEPT ![w] = Idle]
        /\ UNCHANGED <<books, members, nextBook, nextMember, nextTx, now, served>>

\* the rest of patch_transaction, for a payload that leaves the
\* references alone: the fee from the issue_date read before, the UPDATE
\* on the row as it is now; arg is the issue_date the fee was computed from
patch_transaction_write(w) ==
    LET transaction_id == inflight[w].id
        db_transaction == [issue_date |-> inflight[w].issue_date]
        changes == PatchChanges(db_transaction, inflight[w].patch, now)
    IN  /\ inflight[w].pc = "patch_transaction"
        /\ transactions' = [transactions EXCEPT ![transaction_id] =
                               ApplyChanges(transactions[transaction_id], changes)]
        /\ last' = [PatchOutcome(transaction_id, inflight[w].patch, "ok")
                       EXCEPT !.arg = [issue_date |-> inflight[w].issue_date]]
        /\ inflight' = [inflight EXCEPT ![w] = Idle]
        /\ UNCHANGED <<books, members, nextBook, nextMember, nextTx, now, served>>

\* TransactionRepository.delete_transaction
delete_transaction(transaction_id) ==
    /\ IF transaction_id \notin DOMAIN transactions
       THEN /\ last' = Outcome("delete_transaction", transaction_id, "500")
            /\ UNCHANGED transactions
       ELSE /\ transactions' = Remove(transactions, transaction_id)
            /\ last' = Outcome("delete_transaction", transaction_id, "ok")
    /\ UNCHANGED <<books, members, nextBook, nextMember, nextTx, now, inflight>>

\* ------------------------------------------------------------- listing
Limits == {0, 1, 2}
Offsets == {0, 1}

\* the number of rows SELECT ... OFFSET offset LIMIT limit returns
PageSize(table, limit, offset) ==
    LET rest == IF Cardinality(DOMAIN table) > offset
                THEN Cardinality(DOMAIN table) - offset ELSE 0
    IN  IF rest < limit THEN rest ELSE limit

\* what a list request answers: the length of its page and its count
Listing(limit, offset, result, count) ==
    [limit |-> limit, offset |-> offset, result |-> result, count |-> count]

\* BookRepository.get_books: no_of_books is SELECT count(*)
get_books(limit, offset) ==
    /\ last' = ArgOutcome("get_books", 0,
                          Listing(limit, offset, PageSize(books, limit, offset),
                                  Cardinality(DOMAIN books)), "ok")
    /\ UNCHANGED <<books, members, transactions, nextBook, nextMember, nextTx, now,
                   served, inflight>>

\* MemberRepository.get_members: no_of_members is len(result); with rows
\* in the page, row.__dict__ is read off a result Row, which raises
\* where Row has no __dict__ (-> http_404)
get_members(limit, offset) ==
    LET result == PageSize(members, limit, offset) IN
    /\ \/ last' = ArgOutcome("get_members", 0, Listing(limit, offset, result, result), "ok")
       \/ /\ result > 0
          /\ last' = ArgOutcome("get_members", 0, Listing(limit, offset, 0, 0), "404")
    /\ UNCHANGED <<books, members, transactions, nextBook, nextMember, nextTx, now,
                   served, inflight>>

\* TransactionRepository.get_transactions: no_of_transactions is len(result)
get_transactions(limit, offset) ==
    LET result == PageSize(transactions, limit, offset) IN
    /\ last' = ArgOutcome("get_transactions", 0, Listing(limit, offset, result, result), "ok")
    /\ UNCHANGED <<books, members, transactions, nextBook, nextMember, nextTx, now,
                   served, inflight>>

\* datetime.now(timezone.utc) never goes back
Tick ==
    /\ now + 1 \in Times
    /\ now' = now + 1
    /\ UNCHANGED <<books, members, transactions, nextBook, nextMember, nextTx, last, served, inflight>>

\* one more transaction request is served
Serve == served < MaxOps /\ served' = served + 1

\* a library holding one book and one member, no transaction yet
InitTx ==
    /\ books = (1 :> [isbn |-> "x", stock |-> 0])
    /\ members = (1 :> [name |-> "ann", email |-> "a@x"])
    /\ transactions = <<>>
    /\ nextBook = 2
    /\ nextMember = 2
    /\ nextTx = 1
    /\ now = 0
    /\ last = Outcome("none", 0, "none")
    /\ served = 0
    /\ inflight = [w \in Workers |-> Idle]

\* ------------------------------------------------------- specifications

\* the transaction service
Next ==
    \/ Serve /\ \E t \in TransactionCreate : nextTx <= MaxTx /\ add_transaction(t)
    \/ Serve /\ \E t \in RouteRequests : route_add_transaction(t)
    \/ Serve /\ \E id \in TxIds, p \in PatchPayloads : patch_transaction(id, p)
    \/ Serve /\ \E id \in TxIds : delete_transaction(id)
    \/ Tick

Spec == InitTx /\ [][Next]_vars

\* the return patch (status=returned, no return_date, no reference
\* changed) sent again and again to the transactions of the route, with
\* the clock moving in between
ReturnPatches ==
    {p \in PatchPayloads : /\ p.status = "returned" /\ p.return_date = Unset
                           /\ p.book_id = Unset /\ p.member_id = Unset}

NextReturn ==
    \/ \E t \in RouteRequests : nextTx <= MaxTx /\ add_transaction(t) /\ UNCHANGED served
    \/ Serve /\ \E id \in TxIds, p \in ReturnPatches :
                    id \in DOMAIN transactions /\ patch_transaction(id, p)
    \/ Tick

SpecReturn == InitTx /\ [][NextReturn]_vars

\* add_book inserts only while a fresh id is left
BookFits(isbn) ==
    nextBook <= MaxBooks \/ \E b \in DOMAIN books : books[b].isbn = isbn

\* the book catalogue
NextBooks ==
    \/ \E book \in BookCreate : BookFits(book.isbn) /\ add_book(book)
    \/ \E id \in 1..MaxBooks, book \in BookPatch : patch_book(id, book)
    \/ \E id \in 1..MaxBooks : delete_book(id)

SpecBooks == Init /\ [][NextBooks]_vars

\* add_member inserts only while a fresh id is left
MemberFits(member) ==
    nextMember <= MaxMembers \/ \E m \in DOMAIN members : members[m].email = member.email

\* the member service
NextMembers ==
    \/ \E member \in MemberCreate : MemberFits(member) /\ add_member(member)
    \/ \E id \in 1..MaxMembers, member \in MemberPatch : patch_member(id, member)
    \/ \E id \in 1..MaxMembers : delete_member(id)

SpecMembers == Init /\ [][NextMembers]_vars

\* the three tables together: creates with plain payloads, a change of
\* a transaction's references, deletes and lists
NextLibrary ==
    \/ \E book \in BookCreate : book.stock = 0 /\ BookFits(book.isbn) /\ add_book(book)
    \/ \E member \in MemberCreate :
           member.name = "ann" /\ MemberFits(member) /\ add_member(member)
    \/ \E t \in RouteRequests :
           t.issue_date = 0 /\ nextTx <= MaxTx /\ add_transaction(t) /\ UNCHANGED served
    \/ \E id \in TxIds, p \in PatchPayloads :
           /\ Supplied(p) \in {{"book_id"}, {"member_id"}}
           /\ patch_transaction(id, p)
           /\ UNCHANGED served
    \/ \E id \in 1..MaxBooks : delete_book(id)
    \/ \E id \in 1..MaxMembers : delete_member(id)
    \/ \E id \in TxIds : delete_transaction(id) /\ UNCHANGED served
    \/ \E limit \in Limits, offset \in Offsets : get_books(limit, offset)
    \/ \E limit \in Limits, offset \in Offsets : get_members(limit, offset)
    \/ \E limit \in Limits, offset \in Offsets : get_transactions(limit, offset)

SpecLibrary == Init /\ [][NextLibrary]_vars

\* payloads that change the dates or return the book
DatePatches ==
    {p \in PatchPayloads :
        \/ Supplied(p) # {} /\ Supplied(p) \subseteq {"issue_date", "return_date"}
        \/ Supplied(p) = {"status"} /\ p.status = "returned"}

\* patches of stored transactions served in parallel: a request yields
\* between the read of the row and the UPDATE
NextPatchRace ==
    \/ \E t \in RouteRequests :
           nextTx <= MaxTx /\ add_transaction(t) /\ UNCHANGED served
    \/ Serve /\ \E w \in Workers, id \in TxIds, p \in DatePatches :
                    patch_transaction_read(w, id, p)
    \/ \E w \in Workers : patch_transaction_write(w)

SpecPatchRace == InitTx /\ [][NextPatchRace]_vars

\* an import runs only while fresh ids are left for all its adds
ImportFits(pages, feed) ==
    import_loop(ImportStart, pages, feed).nextBook <= MaxBooks + 1

\* the import, next to adds and patches of the ISBN that give it a
\* catalogue with duplicates to run into
NextImport ==
    \/ \E book \in BookCreate : book.stock = 0 /\ BookFits(book.isbn) /\ add_book(book)
    \/ \E id \in 1..MaxBooks, book \in BookPatch :
           book.isbn # "unset" /\ book.stock = Unset /\ patch_book(id, book)
    \/ \E id \in 1..MaxBooks : delete_book(id)
    \/ \E pages \in 0..MaxImport, feed \in Feeds :
           ImportFits(pages, feed) /\ import_books(pages, feed)

SpecImport == Init /\ [][NextImport]_vars

\* imports one after the other, each pass of the loop a step of its own,
\* against feeds that run out and feeds that do not; the worker resumes
\* the loop whenever its await has answered
ImportTargets == -1..MaxImport

NextImportLoop ==
    \/ \E pages \in ImportTargets, feed \in EndlessFeeds : import_books_call(1, pages, feed)
    \/ import_books_while(1)

SpecImportLoop ==
    Init /\ [][NextImportLoop]_vars /\ WF_vars(import_books_while(1))

\* an add goes as far as its insert only while a fresh id is left for it
AddFits(book) ==
    \/ nextBook + Cardinality({w \in Workers : inflight[w].pc = "add_book"}) <= MaxBooks
    \/ \E b \in DOMAIN books : books[b].isbn = book.isbn

\* add requests served in parallel: a request yields at the lookup
NextAddRace ==
    \/ \E w \in Workers, book \in BookCreate : AddFits(book) /\ add_book_lookup(w, book)
    \/ \E w \in Workers : add_book_insert(w)

SpecAddRace == Init /\ [][NextAddRace]_vars

\* ------------------------------------------------------------- properties

\* whole days in a span, as the specification states it: the greatest d
\* with d days <= delta
WholeDays(delta) ==
    CHOOSE d \in -3..3 :
        d * DayLen <= delta /\ delta < (d + 1) * DayLen

\* the last request was a successful patch of a transaction that is still stored
PatchedOk ==
    /\ last.op = "patch_transaction"
    /\ last.outcome = "ok"
    /\ last.id \in DOMAIN transactions

\* C1: once a transaction's stored status is returned, no later step
\* changes its status back to issued.
C1_ReturnedIsTerminal ==
    [][\A t \in DOMAIN transactions :
          (transactions[t].status = "returned" /\ t \in DOMAIN transactions')
              => transactions'[t].status = "returned"]_vars

\* C2: every transaction whose status is issued has late_fee 0.
C2_IssuedHasNoFee ==
    \A t \in DOMAIN transactions :
        transactions[t].status = "issued" => transactions[t].late_fee = 0

\* C3: every transaction whose return_date is present has
\* return_date >= issue_date.
C3_ReturnNotBeforeIssue ==
    \A t \in DOMAIN transactions :
        transactions[t].return_date # NoDate
            => transactions[t].return_date >= transactions[t].issue_date

\* a step that serves a request (last' describes it): every step but a
\* tick of the clock
RequestStep == now' = now

\* a step that is a successful patch of a stored transaction
PatchStep ==
    /\ RequestStep
    /\ last'.op = "patch_transaction"
    /\ last'.outcome = "ok"
    /\ last'.id \in DOMAIN transactions

\* C4: a successful patch carrying return_date R and no status stores
\* late_fee = 10 x whole days (floor) from the stored issue_date to R, a
\* same-day return giving 0, and leaves the stored status unchanged.
C4_ReturnDatePatchFee ==
    [][(/\ PatchStep
        /\ last'.patch.return_date # Unset
        /\ last'.patch.status = "unset")
       => LET id == last'.id
              R == last'.patch.return_date
              delta == R - transactions[id].issue_date
          IN  /\ transactions'[id].late_fee = 10 * WholeDays(delta)
              /\ (delta >= 0 /\ delta < DayLen => transactions'[id].late_fee = 0)
              /\ transactions'[id].status = transactions[id].status]_vars

\* a patch with only a return date one whole day after the issue date
\* left the transaction issued with a fee of 10
C4_Witness ==
    /\ PatchedOk
    /\ Supplied(last.patch) = {"return_date"}
    /\ transactions[last.id].status = "issued"
    /\ transactions[last.id].return_date = last.patch.return_date
    /\ transactions[last.id].return_date - transactions[last.id].issue_date = DayLen
    /\ transactions[last.id].late_fee = 10

\* C5: a successful patch carrying status=returned and no return_date
\* stores return_date = the clock at patch time, late_fee = 10 x whole
\* days from the stored issue_date to that clock value, and status returned.
C5_ReturnedPatchUsesClock ==
    [][(/\ PatchStep
        /\ last'.patch.return_date = Unset
        /\ last'.patch.status = "returned")
       => LET id == last'.id IN
          /\ transactions'[id].return_date = now
          /\ transactions'[id].late_fee =
                 10 * WholeDays(now - transactions[id].issue_date)
          /\ transactions'[id].status = "returned"]_vars

\* a transaction issued at 0 was returned by status alone one day later
C5_Witness ==
    /\ PatchedOk
    /\ Supplied(last.patch) = {"status"}
    /\ last.patch.status = "returned"
    /\ now = DayLen
    /\ transactions[last.id].issue_date = 0
    /\ transactions[last.id].return_date = now
    /\ transactions[last.id].late_fee = 10
    /\ transactions[last.id].status = "returned"

\* C6: whenever a successful patch triggers the fee computation
\* (status=returned or a return_date supplied), the row after the step
\* carries the effective return date, the computed fee and every other
\* supplied field at once, and the stored late_fee is the computed fee
\* even when the payload supplied a late_fee of its own.
C6_FeeWrittenWithChanges ==
    [][(/\ PatchStep
        /\ \/ last'.patch.status = "returned"
           \/ last'.patch.return_date # Unset)
       => LET id == last'.id
              p == last'.patch
              old == transactions[id]
              effective == IF p.return_date # Unset THEN p.return_date ELSE now
          IN  transactions' = [transactions EXCEPT ![id] =
                [book_id     |-> IF p.book_id # Unset THEN p.book_id ELSE old.book_id,
                 member_id   |-> IF p.member_id # Unset THEN p.member_id ELSE old.member_id,
                 status      |-> IF p.status # "unset" THEN p.status ELSE old.status,
                 issue_date  |-> IF p.issue_date # Unset THEN p.issue_date ELSE old.issue_date,
                 return_date |-> effective,
                 late_fee    |-> 10 * WholeDays(effective - old.issue_date)]]]_vars

\* a fee-triggering patch that also supplied a late_fee stored the
\* computed fee of one day, not the supplied one
C6_Witness ==
    /\ PatchedOk
    /\ last.patch.return_date # Unset
    /\ last.patch.late_fee # Unset
    /\ transactions[last.id].return_date = last.patch.return_date
    /\ transactions[last.id].late_fee = 10
    /\ transactions[last.id].late_fee # last.patch.late_fee

\* C7: a patch that neither sets status=returned nor supplies return_date
\* changes exactly the fields its payload supplies, to the supplied values,
\* and nothing else (no other field, no other row, no other table); with
\* an empty payload the transaction is left identical.
C7_PlainPatchFrame ==
    [][(/\ last'.op = "patch_transaction"
        /\ RequestStep
        /\ last'.id \in DOMAIN transactions
        /\ last'.patch.status # "returned"
        /\ last'.patch.return_date = Unset)
       => LET id == last'.id
              p == last'.patch
              old == transactions[id]
              ok == last'.outcome = "ok"
          IN  /\ transactions' = [transactions EXCEPT ![id] =
                   [book_id     |-> IF ok /\ p.book_id # Unset THEN p.book_id ELSE old.book_id,
                    member_id   |-> IF ok /\ p.member_id # Unset THEN p.member_id ELSE old.member_id,
                    status      |-> IF ok /\ p.status # "unset" THEN p.status ELSE old.status,
                    issue_date  |-> IF ok /\ p.issue_date # Unset THEN p.issue_date ELSE old.issue_date,
                    return_date |-> old.return_date,
                    late_fee    |-> IF ok /\ p.late_fee # Unset THEN p.late_fee ELSE old.late_fee]]
              /\ (p = EmptyPatch => transactions' = transactions)
              /\ UNCHANGED <<books, members>>]_vars

\* a returned transaction with a return date and a fee of 5 was patched
\* with an issue_date only: the issue date is the supplied one, the
\* return date and the fee are still there
C7_Witness ==
    /\ PatchedOk
    /\ Supplied(last.patch) = {"issue_date"}
    /\ transactions[last.id].issue_date = last.patch.issue_date
    /\ transactions[last.id].status = "returned"
    /\ transactions[last.id].return_date = DayLen
    /\ transactions[last.id].late_fee = 5

\* C8: every transaction, right after a successful create, has
\* status=issued, no return_date, late_fee 0 and issue_date equal to the
\* clock, whatever the request carried.
C8_CreateStoresDefaults ==
    [][(/\ last'.op = "add_transaction"
        /\ last'.outcome = "ok"
        /\ RequestStep)
       => LET row == transactions'[last'.id] IN
          /\ row.status = "issued"
          /\ row.return_date = NoDate
          /\ row.late_fee = 0
          /\ row.issue_date = now]_vars

\* C9: a create whose book_id or member_id references no row fails and
\* inserts nothing; a create whose book and member both exist succeeds and
\* inserts exactly one row.
C9_CreateChecksReferences ==
    [][(/\ last'.op \in {"add_transaction", "route_add_transaction"}
        /\ RequestStep)
       => \A t \in TransactionCreate :
             (add_transaction(t) \/ route_add_transaction(t))
             => IF ForeignKeysHold(t)
                THEN /\ last'.outcome = "ok"
                     /\ DOMAIN transactions \subseteq DOMAIN transactions'
                     /\ Cardinality(DOMAIN transactions') =
                            Cardinality(DOMAIN transactions) + 1
                ELSE /\ last'.outcome # "ok"
                     /\ transactions' = transactions]_vars

\* C10: when exactly one book with ISBN x exists, add of a book with ISBN x
\* inserts no row, leaves the catalogue unchanged and returns None
\* instead of raising.
C10_DuplicateIsbnNotAdded ==
    [][(/\ last'.op = "add_book"
        /\ RequestStep
        /\ Cardinality({b \in DOMAIN books : books[b].isbn = last'.isbn}) = 1)
       => /\ books' = books
          /\ nextBook' = nextBook
          /\ last'.outcome = "none"]_vars

\* an add was answered None while the catalogue holds exactly one book
\* with that ISBN, next to a book with another ISBN
C10_Witness ==
    /\ last.op = "add_book"
    /\ last.outcome = "none"
    /\ Cardinality({b \in DOMAIN books : books[b].isbn = last.isbn}) = 1
    /\ Cardinality(DOMAIN books) = 2

\* C11: an add whose ISBN lookup found nothing inserts its book and
\* succeeds whatever the catalogue holds by the time of the insert, also
\* when another add put a book with the same ISBN there in between.
C11_RacingAddsBothSucceed ==
    [][\A w \in Workers :
          (inflight[w].pc = "add_book" /\ inflight'[w].pc = "idle")
              => /\ books' = books @@ (nextBook :> inflight[w].book)
                 /\ last'.op = "add_book"
                 /\ last'.outcome = "ok"]_vars

\* two adds have succeeded and the catalogue holds two books with one ISBN
C11_Witness ==
    /\ last.op = "add_book"
    /\ last.outcome = "ok"
    /\ \E a, b \in DOMAIN books : a # b /\ books[a].isbn = books[b].isbn
    /\ \A w \in Workers : inflight[w].pc = "idle"

\* C12: when two or more books with ISBN x exist, add of a book with
\* ISBN x fails with the ambiguous-state error (400), not with the
\* 'not added' result, and inserts no row.
C12_AmbiguousIsbnRejected ==
    [][(/\ last'.op = "add_book"
        /\ RequestStep
        /\ Cardinality({b \in DOMAIN books : books[b].isbn = last'.isbn}) >= 2)
       => /\ books' = books
          /\ nextBook' = nextBook
          /\ last'.outcome = "400"]_vars

\* an add was rejected as ambiguous while two books carry its ISBN
C12_Witness ==
    /\ last.op = "add_book"
    /\ last.outcome = "400"
    /\ Cardinality({b \in DOMAIN books : books[b].isbn = last.isbn}) = 2

\* the ISBNs of the records on the first n pages of a feed
FeedIsbns(feed, n) ==
    UNION {{feed[p].message[k] : k \in 1..Len(feed[p].message)} : p \in 1..n}

\* those of them no book of the catalogue carries
FreshIsbns(feed, n) ==
    {i \in FeedIsbns(feed, n) : ~\E b \in DOMAIN books : books[b].isbn = i}

\* the first n pages of a feed were fetched and hold records
PagesServed(feed, n) ==
    \A p \in 1..n : ~feed[p].fails /\ feed[p].message # <<>>

\* C13: an import with target N against a feed holding at least N records
\* with ISBNs not in the catalogue returns exactly N imported books and
\* adds exactly N rows; against a feed that answers with an empty page
\* before N non-duplicate adds were made it fails with NotFound (404).
C13_ImportReachesTargetOrNotFound ==
    [][(last'.op = "import_books" /\ RequestStep)
       => LET N == last'.arg.pages
              feed == last'.arg.feed
          IN  /\ (PagesServed(feed, Len(feed)) /\ Cardinality(FreshIsbns(feed, Len(feed))) >= N)
                    => /\ last'.outcome = "ok"
                       /\ Len(last'.arg.books_imported) = N
                       /\ Cardinality(DOMAIN books') = Cardinality(DOMAIN books) + N
              /\ \A n \in 0..Len(feed) :
                    (/\ PagesServed(feed, n)
                     /\ Cardinality(FreshIsbns(feed, n)) < N
                     /\ (n = Len(feed) \/ (~feed[n + 1].fails /\ feed[n + 1].message = <<>>)))
                    => last'.outcome = "404"]_vars

\* C14: when an import fails, every book it added before the failure is
\* in the catalogue after it, next to everything that was there before:
\* each ISBN on the pages before the failing one is in the catalogue, and
\* each book the import counted as imported is a new row with stock 5.
C14_FailedImportKeepsAdds ==
    [][(last'.op = "import_books" /\ RequestStep /\ last'.outcome # "ok")
       => LET run == last'.arg
          IN  /\ \A b \in DOMAIN books : b \in DOMAIN books' /\ books'[b] = books[b]
              /\ \A i \in FeedIsbns(run.feed, run.page - 1) :
                    \E b \in DOMAIN books' : books'[b].isbn = i
              /\ \A k \in 1..Len(run.books_imported) :
                    \E b \in DOMAIN books' \ DOMAIN books :
                        books'[b] = [isbn |-> run.books_imported[k], stock |-> 5]
              /\ Cardinality(DOMAIN books') =
                     Cardinality(DOMAIN books) + Len(run.books_imported)]_vars

\* an import failed on its second page after it had added a book from
\* the first, and the book is in the catalogue
C14_Witness ==
    /\ last.op = "import_books"
    /\ last.outcome = "400"
    /\ last.arg.page = 2
    /\ Len(last.arg.books_imported) = 1
    /\ \E b \in DOMAIN books :
          books[b] = [isbn |-> last.arg.books_imported[1], stock |-> 5]

\* C15: for each of Book, Member and Transaction, delete of an id that
\* matches no row fails with NotFound (404) and leaves the store unchanged.
C15_DeleteMissingIsNotFound ==
    [][(/\ RequestStep
        /\ \/ last'.op = "delete_book" /\ last'.id \notin DOMAIN books
           \/ last'.op = "delete_member" /\ last'.id \notin DOMAIN members
           \/ last'.op = "delete_transaction" /\ last'.id \notin DOMAIN transactions)
       => /\ last'.outcome = "404"
          /\ UNCHANGED <<books, members, transactions>>]_vars

\* C16: deleting a Book or Member that a Transaction references fails
\* with Conflict (409) and removes neither the entity nor its
\* transactions, and in every reachable state each transaction's book_id
\* and member_id reference existing rows.
C16_ReferencedRowsStay ==
    /\ [](\A t \in DOMAIN transactions :
             /\ transactions[t].book_id \in DOMAIN books
             /\ transactions[t].member_id \in DOMAIN members)
    /\ [][(/\ RequestStep
           /\ \/ /\ last'.op = "delete_book"
                 /\ \E t \in DOMAIN transactions : transactions[t].book_id = last'.id
              \/ /\ last'.op = "delete_member"
                 /\ \E t \in DOMAIN transactions : transactions[t].member_id = last'.id)
          => /\ last'.outcome = "409"
             /\ UNCHANGED <<books, members, transactions>>]_vars

\* the delete of a book was refused while a transaction references it,
\* and both are still stored
C16_Witness ==
    /\ last.op = "delete_book"
    /\ last.outcome = "409"
    /\ last.id \in DOMAIN books
    /\ \E t \in DOMAIN transactions : transactions[t].book_id = last.id

\* C17: no two Member rows ever share an email; add of a member with an
\* existing member's email, and a patch that sets a member's email to
\* another member's email, both fail with Conflict (409) and leave the
\* store unchanged.
C17_EmailUniqueOrConflict ==
    /\ [](\A a, b \in DOMAIN members : members[a].email = members[b].email => a = b)
    /\ [][(/\ RequestStep
           /\ \/ /\ last'.op = "add_member"
                 /\ \E m \in DOMAIN members : members[m].email = last'.arg.email
              \/ /\ last'.op = "patch_member"
                 /\ last'.id \in DOMAIN members
                 /\ \E m \in DOMAIN members \ {last'.id} :
                       members[m].email = last'.arg.changes.email)
          => /\ last'.outcome = "409"
             /\ UNCHANGED <<books, members, transactions>>]_vars

\* C18: for Book and Member, patch of an existing id changes exactly the
\* fields present in the payload, leaves every other field of that row
\* and every other row untouched and returns the record as it is after
\* the update (or fails with Conflict and changes nothing); patch of an id
\* that matches no row fails with NotFound (404) and writes nothing.
C18_PatchFrameOrNotFound ==
    [][(RequestStep /\ last'.op \in {"patch_book", "patch_member"})
       => LET id == last'.id
              c == last'.arg.changes
              unchanged == UNCHANGED <<books, members, transactions>>
          IN  IF last'.op = "patch_book"
              THEN IF id \in DOMAIN books
                   THEN \/ last'.outcome = "409" /\ unchanged
                        \/ /\ last'.outcome = "ok"
                           /\ books' = [books EXCEPT ![id] =
                                 [isbn  |-> IF c.isbn # "unset" THEN c.isbn ELSE books[id].isbn,
                                  stock |-> IF c.stock # Unset THEN c.stock ELSE books[id].stock]]
                           /\ last'.arg.returned = books'[id]
                           /\ UNCHANGED <<members, transactions>>
                   ELSE last'.outcome = "404" /\ unchanged
              ELSE IF id \in DOMAIN members
                   THEN \/ last'.outcome = "409" /\ unchanged
                        \/ /\ last'.outcome = "ok"
                           /\ members' = [members EXCEPT ![id] =
                                 [name  |-> IF c.name # "unset" THEN c.name ELSE members[id].name,
                                  email |-> IF c.email # "unset" THEN c.email ELSE members[id].email]]
                           /\ last'.arg.returned = members'[id]
                           /\ UNCHANGED <<books, transactions>>
                   ELSE last'.outcome = "404" /\ unchanged]_vars

\* C19: for each of Book, Member and Transaction, a list request
\* succeeds and reports as its count the total number of rows of that
\* kind in the store, not the number of items in the returned page.
C19_ListCountsAllRows ==
    [][(RequestStep /\ last'.op \in {"get_books", "get_members", "get_transactions"})
       => /\ last'.outcome = "ok"
          /\ last'.arg.count =
                 Cardinality(DOMAIN (IF last'.op = "get_books" THEN books
                                     ELSE IF last'.op = "get_members" THEN members
                                     ELSE transactions))]_vars

\* C20: the UPDATE of a fee-triggering patch goes through whatever
\* happened to the row since the patch read it, and stores the late_fee
\* computed from the issue_date that was read, also when a concurrent
\* patch has changed issue_date in between.
C20_FeeFromStaleIssueDate ==
    [][\A w \in Workers :
          (/\ inflight[w].pc = "patch_transaction"
           /\ inflight'[w].pc = "idle"
           /\ \/ inflight[w].patch.status = "returned"
              \/ inflight[w].patch.return_date # Unset)
          => LET id == inflight[w].id
                 R == IF inflight[w].patch.return_date # Unset
                      THEN inflight[w].patch.return_date ELSE now
             IN  /\ last'.outcome = "ok"
                 /\ transactions'[id].return_date = R
                 /\ transactions'[id].late_fee =
                        10 * WholeDays(R - inflight[w].issue_date)]_vars

\* a patch of the return date alone went through with a fee computed from
\* an issue_date that the row no longer had: the final row's late_fee is
\* not 10 x whole days from its issue_date to its return_date
C20_Witness ==
    /\ PatchedOk
    /\ Supplied(last.patch) = {"return_date"}
    /\ \A w \in Workers : inflight[w].pc = "idle"
    /\ last.arg.issue_date # transactions[last.id].issue_date
    /\ transactions[last.id].late_fee #
           10 * WholeDays(transactions[last.id].return_date - transactions[last.id].issue_date)

\* C21: with book operations running one at a time, after any sequence
\* of add, import, patch and delete no two Book rows share an ISBN.
C21_IsbnUniqueSequentially ==
    \A a, b \in DOMAIN books : books[a].isbn = books[b].isbn => a = b

\* the import in flight returns or raises
ImportEnds == inflight[1].pc = "import_books" ~> inflight[1].pc = "idle"

\* C22: the import loop terminates for every feed: with success once the
\* number of non-duplicate adds has reached the target, with a failure on
\* the first page without records; with a target of 0 or less it makes no
\* feed request; a feed whose pages hold only books of the catalogue does
\* not keep it looping.
C22_ImportLoopTerminates ==
    /\ ImportEnds
    /\ [][inflight[1].pc = "import_books" /\ inflight'[1].pc = "idle"
            => LET run == inflight[1].run IN
               /\ last'.outcome = "ok"
                    => /\ Len(last'.arg.books_imported) >= run.pages
                       /\ run.pages > 0 => Len(last'.arg.books_imported) = run.pages
               /\ run.pages <= 0 => last'.outcome = "ok" /\ ~last'.arg.request /\ books' = books
               /\ (run.pages > Len(run.books_imported)
                      /\ ~FeedAnswer(run.feed, run.page).fails
                      /\ FeedAnswer(run.feed, run.page).message = <<>>)
                    => last'.outcome = "400"]_vars

\* C23: a successful fee-triggering patch that also supplies an issue_date
\* stores the new issue_date, and a late_fee computed from the issue_date
\* stored before the patch: 10 x whole days from the previous issue_date
\* to the return_date the row now carries.
C23_FeeFromPreviousIssueDate ==
    [][(/\ PatchStep
        /\ FeeTriggered(last'.patch)
        /\ last'.patch.issue_date # Unset)
       => LET id == last'.id
              previous == transactions[id].issue_date
              row == transactions'[id]
          IN  /\ row.issue_date = last'.patch.issue_date
              /\ row.late_fee = 10 * WholeDays(row.return_date - previous)]_vars

\* a patch supplied issue_date and return_date on the same day, and the
\* row carries the fee of one day, counted from the issue_date it had
C23_Witness ==
    /\ PatchedOk
    /\ Supplied(last.patch) = {"issue_date", "return_date"}
    /\ transactions[last.id].issue_date = last.patch.issue_date
    /\ transactions[last.id].return_date = last.patch.return_date
    /\ last.patch.return_date = last.patch.issue_date
    /\ transactions[last.id].late_fee = 10

\* C24: the fee rule ignores the stored status: a successful patch with
\* status=returned and no return_date on a transaction already returned
\* overwrites its return_date with the clock of the patch and stores the
\* fee recomputed from it, so that the same patch sent again changes the
\* row once a day boundary lies between the two return dates.
C24_ReturnPatchNotIdempotent ==
    [][(/\ PatchStep
        /\ last'.patch.status = "returned"
        /\ last'.patch.return_date = Unset
        /\ transactions[last'.id].status = "returned")
       => LET old == transactions[last'.id]
              row == transactions'[last'.id]
          IN  /\ row.status = "returned"
              /\ row.return_date = now
              /\ row.late_fee = 10 * WholeDays(now - old.issue_date)
              /\ (/\ old.late_fee = 10 * WholeDays(old.return_date - old.issue_date)
                  /\ WholeDays(now - old.issue_date)
                         # WholeDays(old.return_date - old.issue_date))
                 => row.late_fee # old.late_fee /\ row.return_date # old.return_date]_vars

\* the one transaction ever created was sent the return patch twice, and
\* carries the clock and the fee of the second
C24_Witness ==
    /\ served = 2
    /\ nextTx = 2
    /\ DOMAIN transactions = {1}
    /\ PatchedOk
    /\ Supplied(last.patch) = {"status"}
    /\ last.patch.status = "returned"
    /\ now = 2
    /\ transactions[1].issue_date = 0
    /\ transactions[1].return_date = 2
    /\ transactions[1].late_fee = 10

====
